---------------------------- MODULE Spec2Model ----------------------------
(***************************************************************************)
(* Model of the OVH redirection manager (src/unnamed/part_001, the version *)
(* that starts at line 329; src/index.mjs is an earlier version of the     *)
(* same program).                                                          *)
(*                                                                         *)
(* One run of the command line tool is one step of the model: the module   *)
(* level code loads cache.json, one command handler runs to its end, and   *)
(* the process exits.  What survives between runs is the cache file and    *)
(* the provider's state.                                                   *)
(*                                                                         *)
(* Strings are sequences of one-character strings, so that the regular     *)
(* expressions, trim, template strings and comparisons of the code are     *)
(* computed character by character.                                        *)
(***************************************************************************)
EXTENDS Naturals, Integers, Sequences, FiniteSets, TLC

(***************************************************************************)
(* Bounds of the model.                                                    *)
(***************************************************************************)
\* ids the provider may hand out in total (ids are never reused)
MaxId == 3
\* length of the arrays that the query functions are called with on their own
MaxLen == 3

(***************************************************************************)
(* Characters and strings.                                                 *)
(***************************************************************************)
Digits == {"0", "1", "2", "3", "4", "5", "6", "7", "8", "9"}
Lower  == {"a", "b", "c", "d", "m", "p", "s", "x", "y", "z"}
Upper  == {"A", "B", "C"}
Space  == " "
At     == "@"
Dot    == "."

\* UTF-16 code unit of a character (what an ordinal comparison compares)
CharCode(c) ==
  CASE c = " " -> 32 [] c = "." -> 46 [] c = "@" -> 64
    [] c = "0" -> 48 [] c = "1" -> 49 [] c = "2" -> 50 [] c = "3" -> 51
    [] c = "4" -> 52 [] c = "5" -> 53 [] c = "6" -> 54 [] c = "7" -> 55
    [] c = "8" -> 56 [] c = "9" -> 57
    [] c = "A" -> 65 [] c = "B" -> 66 [] c = "C" -> 67
    [] c = "a" -> 97 [] c = "b" -> 98 [] c = "c" -> 99 [] c = "d" -> 100
    [] c = "m" -> 109 [] c = "p" -> 112 [] c = "s" -> 115
    [] c = "x" -> 120 [] c = "y" -> 121 [] c = "z" -> 122

\* String.prototype.toLowerCase on one character
LowerChar(c) ==
  CASE c = "A" -> "a" [] c = "B" -> "b" [] c = "C" -> "c" [] OTHER -> c

\* Primary collation weight of a character in the collation that
\* String.prototype.localeCompare uses (ICU root order: white space, then
\* punctuation, then digits, then letters; the case of a letter is not a
\* primary difference).
PrimaryWeight(c) ==
  IF c = " " THEN 1
  ELSE IF c = "." THEN 2
  ELSE IF c = "@" THEN 3
  ELSE IF c \in Digits THEN 10 + (CharCode(c) - 48)
  ELSE 20 + (CharCode(LowerChar(c)) - 97)

\* Tertiary (case) weight: lower case sorts before upper case
TertiaryWeight(c) == IF c \in Upper THEN 1 ELSE 0

RECURSIVE LexCompare(_, _)
\* lexicographic comparison of two sequences of numbers: -1, 0 or 1
LexCompare(s, t) ==
  IF s = <<>> /\ t = <<>> THEN 0
  ELSE IF s = <<>> THEN -1
  ELSE IF t = <<>> THEN 1
  ELSE IF Head(s) < Head(t) THEN -1
  ELSE IF Head(s) > Head(t) THEN 1
  ELSE LexCompare(Tail(s), Tail(t))

\* the weights of the characters of a string
PrimaryKey(s)  == [i \in 1..Len(s) |-> PrimaryWeight(s[i])]
TertiaryKey(s) == [i \in 1..Len(s) |-> TertiaryWeight(s[i])]
CodeUnits(s)   == [i \in 1..Len(s) |-> CharCode(s[i])]

\* a.localeCompare(b): primary weights decide; the case of the letters
\* only breaks a tie between strings that are equal ignoring case.
LocaleCompare(a, b) ==
  LET p == LexCompare(PrimaryKey(a), PrimaryKey(b))
  IN  IF p # 0 THEN p ELSE LexCompare(TertiaryKey(a), TertiaryKey(b))

\* case-sensitive lexicographic (ordinal) comparison, by code unit
OrdinalCompare(a, b) == LexCompare(CodeUnits(a), CodeUnits(b))

RECURSIVE Trim(_)
\* String.prototype.trim
Trim(s) ==
  IF s = <<>> THEN s
  ELSE IF Head(s) = Space THEN Trim(Tail(s))
  ELSE IF s[Len(s)] = Space THEN Trim(SubSeq(s, 1, Len(s) - 1))
  ELSE s

\* decimal digits of a natural number, as a string
DigitChar(n) ==
  CASE n = 0 -> "0" [] n = 1 -> "1" [] n = 2 -> "2" [] n = 3 -> "3"
    [] n = 4 -> "4" [] n = 5 -> "5" [] n = 6 -> "6" [] n = 7 -> "7"
    [] n = 8 -> "8" [] n = 9 -> "9"

RECURSIVE DecimalString(_)
DecimalString(n) == IF n < 10 THEN <<DigitChar(n)>>
               ELSE DecimalString(n \div 10) \o <<DigitChar(n % 10)>>


(***************************************************************************)
(* Validation of the operator's arguments.                                 *)
(***************************************************************************)
\* [^@\s]* : no "@" and no white space
NoAtNoSpace(s) == \A i \in 1..Len(s) : s[i] # At /\ s[i] # Space

\* /^\d+$/
IsDigits(s) == Len(s) > 0 /\ \A i \in 1..Len(s) : s[i] \in Digits

\* /^[^@\s]+$/
IsLocalPart(s) == Len(s) > 0 /\ NoAtNoSpace(s)

\* /^[^@\s]+@[^@\s]+\.[^@\s]+$/
IsEmail(s) ==
  \E k \in 2..Len(s) :
     /\ s[k] = At
     /\ NoAtNoSpace(SubSeq(s, 1, k - 1))
     /\ LET rest == SubSeq(s, k + 1, Len(s))
        IN  /\ NoAtNoSpace(rest)
            /\ \E j \in 2..(Len(rest) - 1) : rest[j] = Dot

\* validateCliArg(value, type): ok is FALSE where the code throws, value is
\* the trimmed string it returns otherwise
validateCliArg(value, type) ==
  LET trimmed == Trim(value)
  IN  [ok    |-> CASE type = "id"           -> IsDigits(trimmed)
                   [] type = "email"        -> IsEmail(trimmed)
                   [] type = "localOrEmail" -> IsLocalPart(trimmed) \/ IsEmail(trimmed)
                   [] OTHER                 -> FALSE,
       value |-> trimmed]

\* Number(item).toString() === item, for strings over the model's characters:
\* true of the canonical spelling of a number ("0", "7", "10", "1.5") and
\* of nothing else ("007", "7 ", "", ".5", "a")
NumberRoundTrips(item) ==
  LET CanonInt(s)  == IsDigits(s) /\ (Len(s) = 1 \/ s[1] # "0")
      CanonFrac(s) == IsDigits(s) /\ s[Len(s)] # "0"
  IN  \/ CanonInt(item)
      \/ \E k \in 2..(Len(item) - 1) :
            /\ item[k] = Dot
            /\ CanonInt(SubSeq(item, 1, k - 1))
            /\ CanonFrac(SubSeq(item, k + 1, Len(item)))

(***************************************************************************)
(* Configuration, records, cache file.                                     *)
(***************************************************************************)
\* process.env.DOMAIN, the active domain
domain == <<"d", ".", "c">>
\* another domain that cache.json may hold
otherDomain == <<"x", ".", "c">>

\* the JavaScript value undefined (`${undefined}` is the text "undefined")
Undefined == <<"undefined">>

\* `${str}@${domain}`
AtDomain(str) == str \o <<At>> \o domain
\* `spam@${domain}`
SpamSink == AtDomain(<<"s", "p", "a", "m">>)
\* process.env.DEFAULT_TO.replace(/\{\{alias\}\}/g, str), DEFAULT_TO being
\* "{{alias}}@y.c"
DefaultTo(str) == str \o <<At, "y", Dot, "c">>

Redirection(id, from, to) == [id |-> id, from |-> from, to |-> to]

\* a JavaScript number (the id of a record may be one), kept apart from the
\* strings
Number(n) == <<"number", n>>
IsNumber(x) == Len(x) = 2 /\ x[1] = "number"

\* String(x) of a string or a number
StringOf(x) == IF IsNumber(x) THEN DecimalString(x[2]) ELSE x

\* the JavaScript object {}
EmptyObject == [d \in {} |-> <<>>]

\* cache.json: absent, unparsable, the JSON text of an object ("json", with
\* the object), or the JSON text null, which JSON.parse turns into null
FileMissing == [state |-> "missing", content |-> EmptyObject]
FileCorrupt == [state |-> "corrupt", content |-> EmptyObject]
FileNull    == [state |-> "null", content |-> EmptyObject]
\* JSON.stringify(cache, null, 2): a JSON text whose value is the object
\* (every value the cache holds came out of a JSON text)
Stringify(obj) == [state |-> "json", content |-> obj]

\* The module level code that loads the cache:
\*   cache = {}; try { cache = JSON.parse(readFile()) } catch {}
\*   if (!cache[domain]) cache[domain] = { redirections: [] }
\* `cache[domain]` is evaluated outside the try block: of null it throws a
\* TypeError, which ends the process before any command runs
LoadThrows(f) == f.state = "null"

\* the cache that the module level code leaves, when it does not throw
LoadCache(f) ==
  LET parsed == IF f.state = "json" THEN f.content ELSE EmptyObject
  IN  IF domain \in DOMAIN parsed
        THEN parsed
        ELSE [d \in (DOMAIN parsed) \cup {domain} |->
                IF d = domain THEN [redirections |-> <<>>] ELSE parsed[d]]

SeqToSet(s) == {s[i] : i \in 1..Len(s)}
Ids(recs) == [i \in 1..Len(recs) |-> recs[i].id]

(***************************************************************************)
(* Sorting and lookup.                                                     *)
(***************************************************************************)
\* String(a[col])
Field(r, col) ==
  StringOf(CASE col = "id" -> r.id [] col = "to" -> r.to [] OTHER -> r.from)

RECURSIVE InsertSorted(_, _, _)
\* x put behind every element that does not compare greater than it
InsertSorted(sorted, x, col) ==
  IF sorted = <<>> THEN <<x>>
  ELSE IF LocaleCompare(Field(Head(sorted), col), Field(x, col)) > 0
         THEN <<x>> \o sorted
         ELSE <<Head(sorted)>> \o InsertSorted(Tail(sorted), x, col)

RECURSIVE SortLocale(_, _)
\* Array.prototype.sort((a, b) => a[col].localeCompare(b[col])): the sort of
\* the runtime is stable
SortLocale(recs, col) ==
  IF recs = <<>> THEN <<>>
  ELSE InsertSorted(SortLocale(SubSeq(recs, 1, Len(recs) - 1), col),
                    recs[Len(recs)], col)

Reverse(s) == [i \in 1..Len(s) |-> s[Len(s) + 1 - i]]

(***************************************************************************)
(* The query functions.  Arrays are objects: a heap is the sequence of the *)
(* arrays that exist, and an array is known by its place in the heap, so   *)
(* that a function that changed the array it is given would be seen.  A    *)
(* function gives back the heap and the place of the array it returns.     *)
(***************************************************************************)
\* the column names, as the operator types them
Col_from == <<"f", "r", "o", "m">>
Col_to   == <<"t", "o">>
Col_id   == <<"i", "d">>
validColumns == {Col_from, Col_to, Col_id}

\* faulty variant: the array given is sorted itself, no copy is made
sortRedirectionsInPlace(heap, redirections, sortBy, order) ==
  LET col    == IF sortBy \in validColumns THEN sortBy ELSE Col_from
      name   == CASE col = Col_id -> "id" [] col = Col_to -> "to" [] OTHER -> "from"
      sorted == redirections
      heap2  == [heap EXCEPT ![sorted] = SortLocale(@, name)]
  IN  IF order = "desc"
        THEN [heap |-> [heap2 EXCEPT ![sorted] = Reverse(@)], value |-> sorted]
        ELSE [heap |-> heap2, value |-> sorted]

\* sortRedirections(redirections, sortBy, order):
\*   sorted = [...redirections].sort(by String(a[col]).localeCompare)
\*   return order === 'desc' ? sorted.reverse() : sorted
\* sort and reverse work in place, on the copy
sortRedirections(heap, redirections, sortBy, order) ==
  LET col    == IF sortBy \in validColumns THEN sortBy ELSE Col_from
      name   == CASE col = Col_id -> "id" [] col = Col_to -> "to" [] OTHER -> "from"
      heap1  == Append(heap, heap[redirections])
      sorted == Len(heap1)
      heap2  == [heap1 EXCEPT ![sorted] = SortLocale(@, name)]
  IN  IF order = "desc"
        THEN [heap |-> [heap2 EXCEPT ![sorted] = Reverse(@)], value |-> sorted]
        ELSE [heap |-> heap2, value |-> sorted]

\* String.prototype.toLowerCase
ToLowerCase(s) == [i \in 1..Len(s) |-> LowerChar(s[i])]

\* String.prototype.includes
Includes(s, q) ==
  \E i \in 0..(Len(s) - Len(q)) : SubSeq(s, i + 1, i + Len(q)) = q

\* filterRedirections(redirections, searchStr): ok is FALSE where it throws
\* (id.toLowerCase is no function when id is a number; the id is the first
\* field the callback looks at, for every record)
filterRedirections(heap, redirections, searchStr) ==
  IF searchStr = Undefined \/ searchStr = <<>>
    THEN [heap |-> heap, value |-> redirections, ok |-> TRUE]
    ELSE LET query == ToLowerCase(searchStr)
             recs  == heap[redirections]
             Matches(r) == \/ Includes(ToLowerCase(r.id), query)
                           \/ Includes(ToLowerCase(r.from), query)
                           \/ Includes(ToLowerCase(r.to), query)
         IN  IF \E i \in 1..Len(recs) : IsNumber(recs[i].id)
               THEN [heap |-> heap, value |-> redirections, ok |-> FALSE]
               ELSE [heap  |-> Append(heap, SelectSeq(recs, Matches)),
                     value |-> Len(heap) + 1, ok |-> TRUE]

\* the object {} that redirByFrom returns when nothing is found
NoRedirection == Redirection(Undefined, Undefined, Undefined)

\* redirByFrom(str): the first cached record whose from is str or
\* `${str}@${domain}`, else {}
redirByFrom(cache, str) ==
  LET recs == cache[domain].redirections
      hits == {i \in 1..Len(recs) : recs[i].from \in {str, AtDomain(str)}}
  IN  IF hits = {} THEN NoRedirection
      ELSE recs[CHOOSE i \in hits : \A j \in hits : i <= j]

(***************************************************************************)
(* The provider, seen through ovhRequest.  A run is threaded through a     *)
(* context c: the in-memory cache, the file, the provider's records, the   *)
(* log of the requests issued and of the lines printed.  c.n counts the    *)
(* remote requests and file writes so far; F is the set of those that      *)
(* fail for a reason of their own (network, provider, file system).        *)
(***************************************************************************)
Request(op, id, from, to, ok, given) ==
  [op |-> op, id |-> id, from |-> from, to |-> to, ok |-> ok, given |-> given]

\* the request is logged, counted, and its outcome kept in c.ok
Issued(c, req) ==
  [c EXCEPT !.n = @ + 1, !.reqs = Append(@, req), !.ok = req.ok]

Faulty(c, F) == (c.n + 1) \in F

\* GET /email/domain/${domain}/redirection : the ids, in the order `order`
GetIds(c, F, order) ==
  Issued(c, Request("list", <<>>, <<>>, <<>>, ~Faulty(c, F), <<>>))

\* GET /email/domain/${domain}/redirection/${id}
GetDetail(c, F, id) ==
  Issued(c, Request("detail", id, <<>>, <<>>,
                    ~Faulty(c, F) /\ \E r \in c.remote : r.id = id, <<>>))

\* POST /email/domain/${domain}/redirection { from, to, localCopy: false }
PostCreate(c, F, from, to, given) ==
  LET ok == ~Faulty(c, F)
      c1 == Issued(c, Request("create", <<>>, from, to, ok, given))
  IN  IF ok
        THEN [c1 EXCEPT !.remote = @ \cup
                           {Redirection(DecimalString(c.nextId), from, to)},
                        !.nextId = @ + 1]
        ELSE c1

\* DELETE /email/domain/${domain}/redirection/${id}
Delete(c, F, id, given) ==
  LET ok == ~Faulty(c, F) /\ \E r \in c.remote : r.id = id
      c1 == Issued(c, Request("delete", id, <<>>, <<>>, ok, given))
  IN  IF ok THEN [c1 EXCEPT !.remote = {r \in @ : r.id # id}] ELSE c1

\* POST /email/domain/${domain}/redirection/${id}/changeRedirection { to }
PostChange(c, F, id, to, given) ==
  LET ok == ~Faulty(c, F) /\ \E r \in c.remote : r.id = id
      c1 == Issued(c, Request("change", id, <<>>, to, ok, given))
  IN  IF ok
        THEN [c1 EXCEPT !.remote =
                {IF r.id = id THEN [r EXCEPT !.to = to] ELSE r : r \in @}]
        ELSE c1

\* faulty variant: only the active domain's slice is written
WriteFileActiveOnly(c, F) ==
  LET ok == ~Faulty(c, F)
      c1 == [c EXCEPT !.n = @ + 1, !.ok = ok, !.writes = @ + 1]
  IN  IF ok
        THEN [c1 EXCEPT !.file =
                Stringify([d \in {domain} |-> c.cache[domain]])]
        ELSE c1

\* fs.writeFile(cache.json, JSON.stringify(cache, null, 2))
WriteFile(c, F) ==
  LET ok == ~Faulty(c, F)
      c1 == [c EXCEPT !.n = @ + 1, !.ok = ok, !.writes = @ + 1]
  IN  IF ok THEN [c1 EXCEPT !.file = Stringify(c.cache)] ELSE c1

\* console.log / console.error
Console(c, line) == [c EXCEPT !.out = Append(@, line)]

(***************************************************************************)
(* updateRedirections.                                                     *)
(***************************************************************************)
RECURSIVE FetchDetailsSkip(_, _, _)
\* faulty variant: a detail request that fails is skipped and the loop goes on
FetchDetailsSkip(c, F, newRedirIds) ==
  IF newRedirIds = <<>> THEN c
  ELSE LET c1 == GetDetail(c, F, Head(newRedirIds))
       IN  IF ~c1.ok THEN FetchDetailsSkip([c1 EXCEPT !.ok = TRUE], F,
                                           Tail(newRedirIds))
           ELSE FetchDetailsSkip(
                  [c1 EXCEPT !.got = Append(@,
                      CHOOSE r \in c1.remote : r.id = Head(newRedirIds))],
                  F, Tail(newRedirIds))

RECURSIVE FetchDetails(_, _, _)
\* for await (const redirectionId of newRedirIds) {
\*   newRedirections.push(await ovhRequest('GET', .../redirectionId)) }
\* c.got collects newRedirections; a failed request throws (c.ok is FALSE)
FetchDetails(c, F, newRedirIds) ==
  IF newRedirIds = <<>> THEN c
  ELSE LET c1 == GetDetail(c, F, Head(newRedirIds))
       IN  IF ~c1.ok THEN c1
           ELSE FetchDetails(
                  [c1 EXCEPT !.got = Append(@,
                      CHOOSE r \in c1.remote : r.id = Head(newRedirIds))],
                  F, Tail(newRedirIds))

\* the three console.log lines of updateRedirections
CountLines(existingRedirIds, newRedirections, deletedRedirIds) ==
  [kind |-> "counts", item |-> <<>>, msg |-> "",
   remote  |-> Len(existingRedirIds),
   new     |-> Len(newRedirections),
   deleted |-> Len(deletedRedirIds)]

\* faulty variant: every remote id is taken for new
NewRedirIdsAll(allRedirIds, existingRedirIds) == allRedirIds

\* allRedirIds.filter(rId => !existingRedirIds.includes(rId))
NewRedirIds(allRedirIds, existingRedirIds) ==
  SelectSeq(allRedirIds, LAMBDA rId : rId \notin SeqToSet(existingRedirIds))

\* faulty variant: nothing is taken for deleted
DeletedRedirIdsNone(existingRedirIds, allRedirIds) == <<>>

\* existingRedirIds.filter(id => !allRedirIds.includes(id))
DeletedRedirIds(existingRedirIds, allRedirIds) ==
  SelectSeq(existingRedirIds, LAMBDA id : id \notin SeqToSet(allRedirIds))

\* faulty variant: the merged list is left unsorted
MergeUnsorted(old, deletedRedirIds, newRedirections) ==
  SelectSeq(old, LAMBDA r : r.id \notin SeqToSet(deletedRedirIds))
    \o newRedirections

\* the expression assigned to cache[domain].redirections
Merge(old, deletedRedirIds, newRedirections) ==
  SortLocale(SelectSeq(old, LAMBDA r : r.id \notin SeqToSet(deletedRedirIds))
               \o newRedirections,
             "from")

\* updateRedirections(): c.ok tells whether it returned (TRUE) or threw
updateRedirections(c, F, order) ==
  LET c1 == GetIds([c EXCEPT !.updates = @ + 1], F, order)
      allRedirIds      == order
      old              == c.cache[domain].redirections
      existingRedirIds == Ids(old)
      newRedirIds      == NewRedirIds(allRedirIds, existingRedirIds)
      c2 == FetchDetails([c1 EXCEPT !.got = <<>>], F, newRedirIds)
      newRedirections  == c2.got
      deletedRedirIds  == DeletedRedirIds(existingRedirIds, allRedirIds)
      c3 == [c2 EXCEPT !.cache[domain].redirections =
                          Merge(old, deletedRedirIds, newRedirections)]
      c4 == Console(c3, CountLines(existingRedirIds, newRedirections,
                                   deletedRedirIds))
      c5 == WriteFile(c4, F)
  IN  IF ~c1.ok THEN c1
      ELSE IF ~c2.ok THEN c2
      ELSE IF ~c5.ok THEN c5
      ELSE [c5 EXCEPT !.merged = @ + 1]

(***************************************************************************)
(* The request helpers of the commands.                                    *)
(***************************************************************************)
\* a line of console.log / console.error that is not the three counts
Line(kind, item, msg) ==
  [kind |-> kind, item |-> item, msg |-> msg, remote |-> 0, new |-> 0, deleted |-> 0]

\* what `if (x)` takes for true of a string or undefined
Truthy(x) == x # Undefined /\ x # <<>>

\* deleteRedir(id): ids is [id], so ids.length is 1 whatever id is
deleteRedir(c, F, id, given) == Delete(c, F, id, given)

\* changeRedir(id, to)
changeRedir(c, F, id, to, given) ==
  IF Truthy(id) /\ Truthy(to)
    THEN LET c1 == PostChange(c, F, id, to, given)
         IN  IF c1.ok THEN Console(c1, Line("response", id, "")) ELSE c1
    ELSE [c EXCEPT !.ok = TRUE]

\* createRedir(from, to)
createRedir(c, F, from, to, given) ==
  IF Truthy(from) /\ Truthy(to)
    THEN LET c1 == PostCreate(c, F, from, to, given)
         IN  IF c1.ok THEN Console(c1, Line("response", from, "")) ELSE c1
    ELSE [c EXCEPT !.ok = TRUE]

\* createDefaultRedir(str)
createDefaultRedir(c, F, str, given) ==
  createRedir(c, F, AtDomain(str), DefaultTo(str), given)

(***************************************************************************)
(* The command handlers.  Each takes the context at the start of the       *)
(* handler and gives the context at its end.                               *)
(***************************************************************************)
\* redir update: .action(updateRedirections); an exception is left to the
\* process level handler of unhandled rejections
UpdateHandler(c, F, order) ==
  LET c1 == updateRedirections(c, F, order)
  IN  IF c1.ok THEN c1 ELSE Console(c1, Line("unhandled", <<>>, "remote"))

\* listRedirections(results, format): the records shown, in their order
\* (the encodings table, json and csv show the same records)
listRedirections(c, results) == Console(c, Line("list", results, ""))

\* redir list: o holds the options update, spam, sort, reverse and search.
\* The handler is written as its steps, each handing what it has worked
\* out to the next; arrays are places of a heap, and results starts as the
\* very array that the cache holds (array 1).

\* the last step: the cache holds array 1 as the calls left it, and the
\* array that sortRedirections returned is shown
ListShow(c, s) ==
  listRedirections([c EXCEPT !.cache[domain].redirections = s.heap[1]],
                   s.heap[s.value])

\* results = sortRedirections(results, sort || 'from', sortOrder), f being
\* what the search step left (f.ok is FALSE when filterRedirections threw)
ListSort(c, f, o) ==
  IF ~f.ok
    THEN Console([c EXCEPT !.cache[domain].redirections = f.heap[1], !.ok = FALSE],
                 Line("unhandled", <<>>, "type"))
    ELSE ListShow(c, sortRedirections(f.heap, f.value,
                                      IF Truthy(o.sort) THEN o.sort ELSE Col_from,
                                      IF o.reverse THEN "desc" ELSE "asc"))

\* if (search) results = filterRedirections(results, search); results is
\* the last array of the heap
ListSearch(c, heap, o) ==
  ListSort(c,
           IF Truthy(o.search)
             THEN filterRedirections(heap, Len(heap), o.search)
             ELSE [heap |-> heap, value |-> Len(heap), ok |-> TRUE],
           o)

\* if (spam) results = results.filter(({ to }) => to !== `spam@${domain}`)
ListSpam(heap, spam) ==
  IF spam THEN Append(heap, SelectSeq(heap[1], LAMBDA r : r.to # SpamSink))
          ELSE heap

\* let results = cache[domain].redirections, c being the context after
\* `if (update) await updateRedirections()`
ListResults(c, o) ==
  IF ~c.ok THEN Console(c, Line("unhandled", <<>>, "remote"))
  ELSE ListSearch(c, ListSpam(<< c.cache[domain].redirections >>, o.spam), o)

ListHandler(c, F, order, o) ==
  ListResults(IF o.update THEN updateRedirections(c, F, order) ELSE c, o)

RECURSIVE BanLoop(_, _, _)
\* for await (const localPart of localParts)
\*   await createRedir(`${localPart}@${domain}`, `spam@${domain}`)
BanLoop(c, F, localParts) ==
  IF localParts = <<>> THEN c
  ELSE LET c1 == createRedir(c, F, AtDomain(Head(localParts)), SpamSink,
                             << <<Head(localParts), "localOrEmail">> >>)
       IN  IF ~c1.ok THEN c1 ELSE BanLoop(c1, F, Tail(localParts))

\* redir ban <localPart...>
BanHandler(c, F, order, localParts) ==
  LET c1 == BanLoop(c, F, localParts)
      c2 == updateRedirections(c1, F, order)
  IN  IF ~c1.ok THEN Console(c1, Line("unhandled", <<>>, "remote"))
      ELSE IF ~c2.ok THEN Console(c2, Line("unhandled", <<>>, "remote"))
      ELSE c2

\* faulty variant: the reconciliation runs though the create request failed
CreateHandlerReconciles(c, F, order, from, to) ==
  LET vFrom == validateCliArg(from, "localOrEmail")
      vTo   == IF Truthy(to) THEN validateCliArg(to, "email")
                             ELSE [ok |-> TRUE, value |-> Undefined]
      given == IF Truthy(to)
                 THEN << <<from, "localOrEmail">>, <<to, "email">> >>
                 ELSE << <<from, "localOrEmail">> >>
      c1 == IF Truthy(vTo.value)
              THEN createRedir(c, F, vFrom.value, vTo.value, given)
              ELSE createDefaultRedir(c, F, vFrom.value, given)
      c2 == updateRedirections(Console(c1, Line("invalid", from, "remote")),
                               F, order)
      c3 == updateRedirections(c1, F, order)
  IN  IF ~vFrom.ok THEN Console(c, Line("invalid", from, "validation"))
      ELSE IF ~vTo.ok THEN Console(c, Line("invalid", to, "validation"))
      ELSE IF ~c1.ok THEN c2
      ELSE IF ~c3.ok THEN Console(c3, Line("invalid", <<>>, "remote"))
      ELSE c3

\* redir create <from> [to]
CreateHandler(c, F, order, from, to) ==
  LET vFrom == validateCliArg(from, "localOrEmail")
      vTo   == IF Truthy(to) THEN validateCliArg(to, "email")
                             ELSE [ok |-> TRUE, value |-> Undefined]
      given == IF Truthy(to)
                 THEN << <<from, "localOrEmail">>, <<to, "email">> >>
                 ELSE << <<from, "localOrEmail">> >>
      c1 == IF Truthy(vTo.value)
              THEN createRedir(c, F, vFrom.value, vTo.value, given)
              ELSE createDefaultRedir(c, F, vFrom.value, given)
      c2 == updateRedirections(c1, F, order)
  IN  IF ~vFrom.ok THEN Console(c, Line("invalid", from, "validation"))
      ELSE IF ~vTo.ok THEN Console(c, Line("invalid", to, "validation"))
      ELSE IF ~c1.ok THEN Console(c1, Line("invalid", from, "remote"))
      ELSE IF ~c2.ok THEN Console(c2, Line("invalid", <<>>, "remote"))
      ELSE c2

RECURSIVE DeleteLoopAbort(_, _, _)
\* faulty variant: the first item that fails ends the batch
DeleteLoopAbort(c, F, items) ==
  IF items = <<>> THEN c
  ELSE LET item == Head(items)
           isId == NumberRoundTrips(item)
           v    == IF isId THEN validateCliArg(item, "id")
                           ELSE validateCliArg(item, "localOrEmail")
           given == << <<item, IF isId THEN "id" ELSE "localOrEmail">> >>
           c1   == deleteRedir(c, F,
                     IF isId THEN v.value ELSE redirByFrom(c.cache, v.value).id,
                     given)
       IN  IF ~v.ok THEN Console(c, Line("delete-failed", item, "validation"))
           ELSE IF ~c1.ok THEN Console(c1, Line("delete-failed", item, "remote"))
           ELSE DeleteLoopAbort(c1, F, Tail(items))

RECURSIVE DeleteLoop(_, _, _)
\* for await (const item of items) { try { ... } catch { console.error } }
DeleteLoop(c, F, items) ==
  IF items = <<>> THEN c
  ELSE LET item == Head(items)
           isId == NumberRoundTrips(item)
           v    == IF isId THEN validateCliArg(item, "id")
                           ELSE validateCliArg(item, "localOrEmail")
           given == << <<item, IF isId THEN "id" ELSE "localOrEmail">> >>
           c1   == deleteRedir(c, F,
                     IF isId THEN v.value ELSE redirByFrom(c.cache, v.value).id,
                     given)
           c2   == IF ~v.ok THEN Console(c, Line("delete-failed", item, "validation"))
                   ELSE IF ~c1.ok THEN Console(c1, Line("delete-failed", item, "remote"))
                   ELSE c1
       IN  DeleteLoop(c2, F, Tail(items))

\* redir delete <from...>
DeleteHandler(c, F, order, items) ==
  LET c1 == DeleteLoop(c, F, items)
      c2 == updateRedirections(c1, F, order)
  IN  IF ~c2.ok THEN Console(c2, Line("unexpected", <<>>, "remote")) ELSE c2

\* faulty variant: the test of redirId is missing
ModifyHandlerNoTest(c, F, order, source, newTo) ==
  LET isId    == NumberRoundTrips(source)
      vSource == IF isId THEN validateCliArg(source, "id")
                         ELSE validateCliArg(source, "localOrEmail")
      vTo     == validateCliArg(newTo, "email")
      redirId == IF isId THEN vSource.value
                         ELSE redirByFrom(c.cache, vSource.value).id
      given   == << <<source, IF isId THEN "id" ELSE "localOrEmail">>,
                    <<newTo, "email">> >>
      c1 == changeRedir(c, F, redirId, vTo.value, given)
      c2 == Console(c1, Line("modified", redirId, ""))
      c3 == updateRedirections(c2, F, order)
  IN  IF ~vSource.ok THEN Console(c, Line("modify-failed", source, "validation"))
      ELSE IF ~vTo.ok THEN Console(c, Line("modify-failed", newTo, "validation"))
      ELSE IF ~c1.ok THEN Console(c1, Line("modify-failed", source, "remote"))
      ELSE IF ~c3.ok THEN Console(c3, Line("modify-failed", <<>>, "remote"))
      ELSE c3

\* redir modify <source> <newTo>
ModifyHandler(c, F, order, source, newTo) ==
  LET isId    == NumberRoundTrips(source)
      vSource == IF isId THEN validateCliArg(source, "id")
                         ELSE validateCliArg(source, "localOrEmail")
      vTo     == validateCliArg(newTo, "email")
      redirId == IF isId THEN vSource.value
                         ELSE redirByFrom(c.cache, vSource.value).id
      given   == << <<source, IF isId THEN "id" ELSE "localOrEmail">>,
                    <<newTo, "email">> >>
      c1 == changeRedir(c, F, redirId, vTo.value, given)
      c2 == Console(c1, Line("modified", redirId, ""))
      c3 == updateRedirections(c2, F, order)
  IN  IF ~vSource.ok THEN Console(c, Line("modify-failed", source, "validation"))
      ELSE IF ~vTo.ok THEN Console(c, Line("modify-failed", newTo, "validation"))
      ELSE IF ~Truthy(redirId) THEN Console(c, Line("not-found", source, ""))
      ELSE IF ~c1.ok THEN Console(c1, Line("modify-failed", source, "remote"))
      ELSE IF ~c3.ok THEN Console(c3, Line("modify-failed", <<>>, "remote"))
      ELSE c3

(***************************************************************************)
(* State.                                                                  *)
(***************************************************************************)
VARIABLES
  file,     \* cache.json
  remote,   \* the provider's redirections of the active domain
  nextId,   \* the id the provider gives to the next redirection
  synced,   \* history: the last thing that happened to file and remote
            \* was a reconciliation that ran to its end
  run,      \* the process that has just run (NoRun when none has)
  call      \* a call of a query function on its own (NoCall when none)

vars == <<file, remote, nextId, synced, run, call>>

\* what the operator may type
S_a      == <<"a">>
S_c      == <<"c">>
S_z      == <<"z">>
S_1      == <<"1">>
S_01     == <<"0", "1">>
S_a_b    == <<"a", " ", "b">>
S_bad    == <<"b", "a", "d">>
S_Cdc    == AtDomain(<<"C">>)
S_xyc    == <<"x", "@", "y", ".", "c">>
S_zyc    == <<"z", "@", "y", ".", "c">>

\* redir create <from> [to]
CreateArgs == { <<S_c, S_xyc>>, <<S_c, Undefined>>, <<S_Cdc, S_xyc>>,
                <<S_Cdc, Undefined>>, <<S_a_b, S_xyc>>, <<S_c, S_bad>> }
\* redir ban <localPart...>
BanArgs    == { <<S_c>>, <<S_a_b>>, <<S_c, S_a_b>>, <<S_c, S_z>> }
\* redir delete <from...>
DeleteArgs == { <<S_a>>, <<S_1>>, <<S_a, S_z>>, <<S_a_b, S_1>>, <<S_01>> }
\* redir modify <source> <newTo>
ModifyArgs == { <<S_a, S_zyc>>, <<S_1, S_zyc>>, <<S_z, S_zyc>>,
                <<S_z, S_bad>>, <<S_a, S_bad>>, <<S_01, S_zyc>> }

\* redir list [-u] [--no-spam] [-s <column>] [-r] [-q <query>]: spam is
\* FALSE when --no-spam is given, an option that is not given is undefined
\* (reverse and update are then taken for false)
S_A == <<"A">>
ListOptions(update, spam, sort, reverse, search) ==
  [update |-> update, spam |-> spam, sort |-> sort, reverse |-> reverse,
   search |-> search]
ListArgs ==
  { ListOptions(FALSE, spam, sort, reverse, search) :
      spam \in BOOLEAN, sort \in {Undefined, Col_to},
      reverse \in BOOLEAN, search \in {Undefined, <<>>, S_A} }
  \cup { ListOptions(FALSE, FALSE, Col_id, TRUE, Undefined),
         ListOptions(FALSE, TRUE, <<"x">>, FALSE, S_A),
         ListOptions(TRUE, TRUE, Undefined, FALSE, Undefined),
         ListOptions(TRUE, FALSE, Col_to, TRUE, S_A) }

\* At most one remote request or file write of a run fails for a reason of
\* its own; it is one of the first n.
FaultSets(n) == {{}} \cup {{k} : k \in 1..n}

RECURSIVE Ascending(_)
\* the ids of a set of records, smallest first
Ascending(ids) ==
  IF ids = {} THEN <<>>
  ELSE LET m == CHOOSE x \in ids : \A y \in ids : OrdinalCompare(x, y) <= 0
       IN  <<m>> \o Ascending(ids \ {m})

\* the orders in which the provider lists the ids in the model
ListOrders(recs) ==
  LET asc == Ascending({r.id : r \in recs}) IN {asc, Reverse(asc)}

\* the provider's records at the start, and what older runs left in the file
R1 == Redirection(<<"1">>, AtDomain(S_a), S_xyc)
R2 == Redirection(<<"2">>, AtDomain(<<"B">>), SpamSink)
R0 == Redirection(<<"0">>, AtDomain(S_z), S_xyc)
RX == Redirection(<<"7">>, <<"a", "@", "x", ".", "c">>, S_xyc)

InitFiles ==
  { FileMissing,
    FileCorrupt,
    FileNull,
    Stringify([d \in {otherDomain} |-> [redirections |-> <<RX>>]]),
    Stringify([d \in {domain, otherDomain} |->
                 IF d = domain THEN [redirections |-> <<R0, R2, R1>>]
                               ELSE [redirections |-> <<RX>>]]) }

NoRun ==
  [cmd |-> "none", args |-> <<>>, startFile |-> FileMissing,
   loaded |-> EmptyObject, startRemote |-> {}, wasSynced |-> FALSE,
   cache |-> EmptyObject, reqs |-> <<>>, out |-> <<>>,
   updates |-> 0, merged |-> 0, writes |-> 0, ok |-> TRUE]

\* a call of sortRedirections or filterRedirections: the array and the
\* arguments it is given and, once it has returned, the array as the call
\* left it and the array returned (ok is FALSE when the call threw)
Call(fn, redirections, arg, order) ==
  [fn |-> fn, redirections |-> redirections, arg |-> arg, order |-> order,
   returned |-> FALSE, ok |-> TRUE, after |-> <<>>, result |-> <<>>]
NoCall == Call("none", <<>>, <<>>, "asc")

Init ==
  /\ file \in InitFiles
  /\ remote = {R1, R2}
  /\ nextId = 3
  /\ synced = FALSE
  /\ run = NoRun
  /\ call = NoCall

\* the context when a handler starts: the module level code has run
Start ==
  [cache |-> LoadCache(file), file |-> file, remote |-> remote,
   nextId |-> nextId, reqs |-> <<>>, out |-> <<>>, got |-> <<>>,
   n |-> 0, ok |-> TRUE, updates |-> 0, merged |-> 0, writes |-> 0]

\* the handler has ended in context c (the provider has ids up to MaxId)
Finish(cmd, args, c) ==
  /\ c.nextId <= MaxId + 1
  /\ file' = c.file
  /\ remote' = c.remote
  /\ nextId' = c.nextId
  /\ synced' = IF c.merged > 0 THEN TRUE ELSE synced /\ c.remote = remote
  /\ call' = call
  /\ run' = [cmd |-> cmd, args |-> args, startFile |-> file,
             loaded |-> LoadCache(file), startRemote |-> remote,
             wasSynced |-> synced, cache |-> c.cache, reqs |-> c.reqs,
             out |-> c.out, updates |-> c.updates,
             merged |-> c.merged, writes |-> c.writes, ok |-> c.ok]

Idle == run.cmd = "none"

\* a process can start and its module level code runs to its end
Ready == Idle /\ ~LoadThrows(file)

(***************************************************************************)
(* Actions: one run of the tool each.  The faults are drawn over the       *)
(* requests of the run (one more than the run without fault issues, since  *)
(* a failed delete can add a detail request); the order of the id list is  *)
(* drawn over the records the provider holds when updateRedirections is    *)
(* reached, which no choice of order changes.                              *)
(***************************************************************************)
Update ==
  /\ Ready
  /\ \E F \in FaultSets(UpdateHandler(Start, {}, <<>>).n + 1) :
       \E order \in ListOrders(UpdateHandler(Start, F, <<>>).remote) :
         Finish("update", <<>>, UpdateHandler(Start, F, order))

Ban ==
  /\ Ready
  /\ \E localParts \in BanArgs :
       \E F \in FaultSets(BanHandler(Start, {}, <<>>, localParts).n + 1) :
         \E order \in ListOrders(BanHandler(Start, F, <<>>, localParts).remote) :
           Finish("ban", localParts, BanHandler(Start, F, order, localParts))

Create ==
  /\ Ready
  /\ \E a \in CreateArgs :
       \E F \in FaultSets(CreateHandler(Start, {}, <<>>, a[1], a[2]).n + 1) :
         \E order \in ListOrders(CreateHandler(Start, F, <<>>, a[1], a[2]).remote) :
           Finish("create", a, CreateHandler(Start, F, order, a[1], a[2]))

DeleteCmd ==
  /\ Ready
  /\ \E items \in DeleteArgs :
       \E F \in FaultSets(DeleteHandler(Start, {}, <<>>, items).n + 1) :
         \E order \in ListOrders(DeleteHandler(Start, F, <<>>, items).remote) :
           Finish("delete", items, DeleteHandler(Start, F, order, items))

Modify ==
  /\ Ready
  /\ \E a \in ModifyArgs :
       \E F \in FaultSets(ModifyHandler(Start, {}, <<>>, a[1], a[2]).n + 1) :
         \E order \in ListOrders(ModifyHandler(Start, F, <<>>, a[1], a[2]).remote) :
           Finish("modify", a, ModifyHandler(Start, F, order, a[1], a[2]))

List ==
  /\ Ready
  /\ \E o \in ListArgs :
       \E F \in FaultSets(ListHandler(Start, {}, <<>>, o).n + 1) :
         \E order \in ListOrders(ListHandler(Start, F, <<>>, o).remote) :
           Finish("list", o, ListHandler(Start, F, order, o))

\* the module level code throws: the process ends before program.parse()
Crash ==
  /\ Idle /\ LoadThrows(file)
  /\ run' = [NoRun EXCEPT !.cmd = "crash", !.startFile = file, !.ok = FALSE]
  /\ UNCHANGED <<file, remote, nextId, synced, call>>

\* the process ends; its memory is gone
Exit ==
  /\ ~Idle
  /\ run' = NoRun
  /\ UNCHANGED <<file, remote, nextId, synced, call>>

Next ==
  List \/ Update \/ Ban \/ Create \/ DeleteCmd \/ Modify \/ Crash \/ Exit

Spec == Init /\ [][Next]_vars

(***************************************************************************)
(* The query functions on their own: sortRedirections and                  *)
(* filterRedirections are called once with an array of up to MaxLen        *)
(* records that differ from one another, some with equal from, to or id    *)
(* (the id "1" and the number 1 are the same text), and with each column,  *)
(* direction and query.                                                    *)
(***************************************************************************)
Q1 == Redirection(<<"1">>, AtDomain(S_a), S_xyc)
Q2 == Redirection(Number(1), AtDomain(S_a), SpamSink)
Q3 == Redirection(<<"2">>, AtDomain(<<"B">>), S_xyc)
Q4 == Redirection(<<"3">>, AtDomain(<<"C">>), S_zyc)
QueryRecords == {Q1, Q2, Q3, Q4}

QueryInputs ==
  UNION { {s \in [1..n -> QueryRecords] :
             \A i, j \in 1..n : i # j => s[i] # s[j]} : n \in 0..MaxLen }

SortColumns == validColumns \cup {Undefined, <<"x">>}
SearchStrings == {Undefined, <<>>, S_a, S_A, S_1, <<"Y", ".", "C">>}

InitQuery ==
  /\ file = FileMissing
  /\ remote = {}
  /\ nextId = 1
  /\ synced = FALSE
  /\ run = NoRun
  /\ call \in { Call("sortRedirections", recs, sortBy, order) :
                   recs \in QueryInputs, sortBy \in SortColumns,
                   order \in {"asc", "desc"} }
             \cup { Call("filterRedirections", recs, searchStr, "asc") :
                   recs \in QueryInputs, searchStr \in SearchStrings }

SortCall ==
  /\ call.fn = "sortRedirections" /\ ~call.returned
  /\ LET s == sortRedirections(<<call.redirections>>, 1, call.arg, call.order)
     IN  call' = [call EXCEPT !.returned = TRUE, !.after = s.heap[1],
                              !.result = s.heap[s.value]]
  /\ UNCHANGED <<file, remote, nextId, synced, run>>

FilterCall ==
  /\ call.fn = "filterRedirections" /\ ~call.returned
  /\ LET f == filterRedirections(<<call.redirections>>, 1, call.arg)
     IN  call' = [call EXCEPT !.returned = TRUE, !.ok = f.ok,
                              !.after = f.heap[1],
                              !.result = IF f.ok THEN f.heap[f.value] ELSE <<>>]
  /\ UNCHANGED <<file, remote, nextId, synced, run>>

NextQuery == SortCall \/ FilterCall

SpecQuery == InitQuery /\ [][NextQuery]_vars

(***************************************************************************)
(* Properties.  They are stated of the state in which a run has ended.     *)
(***************************************************************************)
\* updateRedirections ran to its end in this run (the file was written)
Reconciled == run.merged > 0

\* the redirections of the active domain: in the file, in memory at the end
\* of the run, in memory when the handler started
Persisted == file.content[domain].redirections
Snapshot  == run.cache[domain].redirections
Prior     == run.loaded[domain].redirections

LocalIds  == SeqToSet(Ids(Prior))
RemoteIds == {r.id : r \in remote}

RequestsOf(op) == {i \in 1..Len(run.reqs) : run.reqs[i].op = op}
LinesOf(kind)  == {i \in 1..Len(run.out) : run.out[i].kind = kind}

SortedLocale(recs) ==
  \A i \in 1..(Len(recs) - 1) : LocaleCompare(recs[i].from, recs[i + 1].from) <= 0
SortedOrdinal(recs) ==
  \A i \in 1..(Len(recs) - 1) : OrdinalCompare(recs[i].from, recs[i + 1].from) <= 0

\* C1: after a reconciliation that ran to its end, the ids of the persisted
\* redirections of the active domain are exactly the remote ids.
C1_Completeness ==
  Reconciled => /\ file.state = "json"
                /\ SeqToSet(Ids(Persisted)) = RemoteIds

\* a reconciliation that both prunes a local id and adds a remote one
C1_Witness ==
  /\ Reconciled
  /\ LocalIds \ RemoteIds # {}
  /\ RemoteIds \ LocalIds # {}
  /\ LocalIds \cap RemoteIds # {}

\* C2 (as claimed): after a reconciliation every record of the in-memory
\* snapshot is the provider's current record of that id, also after modify.
C2_NoStaleEntries ==
  Reconciled => \A i \in 1..Len(Snapshot) : Snapshot[i] \in remote

C4_Idempotence ==
  (Reconciled /\ run.wasSynced /\ remote = run.startRemote)
    => /\ file = run.startFile
       /\ RequestsOf("detail") = {}

\* a second reconciliation in a row over several records and two domains
C4_Witness ==
  /\ Reconciled /\ run.wasSynced /\ remote = run.startRemote
  /\ run.cmd = "update"
  /\ Len(Persisted) >= 2
  /\ otherDomain \in DOMAIN file.content

\* C5: the file written by a reconciliation holds, for every domain other
\* than the active one, the entry that the file held at startup, and no
\* other domain.
C5_Isolation ==
  Reconciled =>
    /\ DOMAIN file.content = DOMAIN run.startFile.content \cup {domain}
    /\ \A d \in DOMAIN run.startFile.content \ {domain} :
          file.content[d] = run.startFile.content[d]

\* a reconciliation that changes the active domain's entry of a file that
\* holds another domain
C5_Witness ==
  /\ Reconciled
  /\ otherDomain \in DOMAIN run.startFile.content
  /\ Persisted # Prior

\* the three numbers a completed reconciliation prints
Counts == run.out[CHOOSE i \in LinesOf("counts") : TRUE]

\* C6 (as claimed): the numbers reported are the size of the remote id set,
\* of the ids added and of the ids deleted.
C6_ReportedCounts ==
  Reconciled =>
    /\ Counts.remote  = Cardinality(RemoteIds)
    /\ Counts.new     = Cardinality(RemoteIds \ LocalIds)
    /\ Counts.deleted = Cardinality(LocalIds \ RemoteIds)

\* the record id that delete and modify work out for an identifier, from
\* the snapshot the run started with
Classified(item) ==
  IF NumberRoundTrips(item) THEN validateCliArg(item, "id")
                            ELSE validateCliArg(item, "localOrEmail")
Resolves(item) ==
  /\ Classified(item).ok
  /\ \/ NumberRoundTrips(item)
     \/ redirByFrom(run.loaded, Classified(item).value).id # Undefined
\* a well-formed local part or address that no record of the snapshot has
Unresolved(item) ==
  /\ Classified(item).ok
  /\ ~NumberRoundTrips(item)
  /\ redirByFrom(run.loaded, Classified(item).value).id = Undefined

\* the operator's identifier that a request was issued for
ItemOf(req) == req.given[1][1]

\* C7 (as claimed): delete issues no DELETE request for an identifier that
\* resolves to no record, reports an error for it, and issues one DELETE
\* request for each identifier that resolves.
C7_NoDeleteForUnresolved ==
  run.cmd = "delete" =>
    /\ \A i \in RequestsOf("delete") : Resolves(ItemOf(run.reqs[i]))
    /\ \A k \in 1..Len(run.args) :
          Unresolved(run.args[k]) =>
            \E i \in LinesOf("delete-failed") : run.out[i].item = run.args[k]
    /\ Cardinality(RequestsOf("delete")) =
         Cardinality({k \in 1..Len(run.args) : Resolves(run.args[k])})

\* C8: delete calls updateRedirections exactly once, after every identifier
\* of the batch has been processed (a DELETE request issued for it, or the
\* identifier rejected by validation).
C8_ReconcileOnceAfterBatch ==
  run.cmd = "delete" =>
    /\ run.updates = 1
    /\ Cardinality(RequestsOf("list")) = 1
    /\ \A i \in RequestsOf("delete"), j \in RequestsOf("list") : i < j
    /\ Cardinality(RequestsOf("delete"))
         + Cardinality({i \in LinesOf("delete-failed") :
                           run.out[i].msg = "validation"})
       = Len(run.args)

\* a batch of two, one rejected by validation and one whose request failed
C8_Witness ==
  /\ run.cmd = "delete"
  /\ Len(run.args) = 2
  /\ \E i \in LinesOf("delete-failed") : run.out[i].msg = "validation"
  /\ \E i \in RequestsOf("delete") : ~run.reqs[i].ok
  /\ RequestsOf("list") # {}

\* modify was given a well-formed local part or address that no record of
\* the snapshot has
ModifyUnresolved == run.cmd = "modify" /\ Unresolved(run.args[1])

NothingDone ==
  /\ run.reqs = <<>>
  /\ run.cache = run.loaded
  /\ file = run.startFile

\* C9 (as claimed): modify of a source that resolves to no record reports
\* "not found", makes no remote call and leaves the snapshot as it was.
C9_NotFound ==
  ModifyUnresolved => LinesOf("not-found") # {} /\ NothingDone

\* C9 (amended): modify of a source that resolves to no record makes no
\* remote call and leaves the snapshot as it was; it reports "not found"
\* when newTo is a valid address, and the validation error of newTo when it
\* is not.
C9_NotFoundValidTo ==
  ModifyUnresolved =>
    /\ NothingDone
    /\ Len(run.out) = 1
    /\ IF validateCliArg(run.args[2], "email").ok
         THEN run.out[1].kind = "not-found"
         ELSE run.out[1].kind = "modify-failed" /\ run.out[1].msg = "validation"

\* modify of an unknown local part with a valid new destination
C9_Witness ==
  /\ ModifyUnresolved
  /\ validateCliArg(run.args[2], "email").ok
  /\ LinesOf("not-found") # {}

\* C10 (as claimed): every create, delete or change-destination request
\* carries only operator-supplied values that pass their validation.
C10_ValidationFirst ==
  \A i \in RequestsOf("create") \cup RequestsOf("delete") \cup RequestsOf("change") :
    \A k \in 1..Len(run.reqs[i].given) :
      validateCliArg(run.reqs[i].given[k][1], run.reqs[i].given[k][2]).ok

\* the address that create is to send as from, for the from the operator
\* gave: a bare local part expanded with the domain, a full address as it is
ExpandedFrom(from) ==
  LET given == validateCliArg(from, "localOrEmail").value
  IN  IF IsLocalPart(given) THEN AtDomain(given) ELSE given

\* C11 (as claimed): the from of the create request that create issues is
\* local-part@domain for a bare local part and the given address for a full
\* address, with and without the argument to.
C11_FromExpanded ==
  run.cmd = "create" =>
    \A i \in RequestsOf("create") : run.reqs[i].from = ExpandedFrom(run.args[1])

\* the records that list has shown
Shown == run.out[CHOOSE i \in LinesOf("list") : TRUE].item
ListShown == run.cmd = "list" /\ LinesOf("list") # {}

\* C12 (as claimed): list with --no-spam (spam is FALSE) shows no record
\* whose to is the spam sink; list without it (and without search) shows
\* every record of the snapshot whose to is the spam sink.
C12_SpamExclusion ==
  ListShown =>
    IF ~run.args.spam
      THEN \A i \in 1..Len(Shown) : Shown[i].to # SpamSink
      ELSE ~Truthy(run.args.search) =>
             \A k \in 1..Len(Snapshot) :
                Snapshot[k].to = SpamSink => Snapshot[k] \in SeqToSet(Shown)

\* sortRedirections and filterRedirections, called with the options o on
\* the array recs, leave it as it is
QueryLeaves(recs, o) ==
  /\ sortRedirections(<<recs>>, 1, o.sort, IF o.reverse THEN "desc" ELSE "asc").heap[1]
       = recs
  /\ filterRedirections(<<recs>>, 1, o.search).heap[1] = recs

\* C13: list without --update leaves the in-memory snapshot (records and
\* order) and the cache file as they were, whatever the options spam,
\* search, sort and reverse; sortRedirections and filterRedirections, given
\* the snapshot with the options of the run, leave it as it is.
C13_QueryPurity ==
  (run.cmd = "list" /\ ~run.args.update) =>
    /\ run.cache = run.loaded
    /\ file = run.startFile
    /\ QueryLeaves(Prior, run.args)

\* list of an unsorted snapshot, sorted by another column in reverse with
\* a search, the array of the cache itself being handed to the functions
C13_Witness ==
  /\ ListShown /\ ~run.args.update
  /\ ~run.args.spam /\ run.args.reverse
  /\ run.args.sort = Col_to /\ run.args.search = S_A
  /\ ~SortedLocale(Prior)
  /\ Len(Shown) >= 2
  /\ Shown # Prior

\* the key that sortRedirections sorts by, as a text
SortKey(r, sortBy) ==
  StringOf(IF sortBy = Col_id THEN r.id ELSE IF sortBy = Col_to THEN r.to ELSE r.from)
PlaceIn(recs, r) == CHOOSE i \in 1..Len(recs) : recs[i] = r
Sorted == call.fn = "sortRedirections" /\ call.returned
EqualKeys(sortBy) ==
  {p \in (1..Len(call.redirections)) \X (1..Len(call.redirections)) :
     /\ p[1] < p[2]
     /\ SortKey(call.redirections[p[1]], sortBy) = SortKey(call.redirections[p[2]], sortBy)}

\* the result holds the records of the input, ordered by the key in the
\* direction asked for
OrderedBy(sortBy) ==
  /\ Len(call.result) = Len(call.redirections)
  /\ SeqToSet(call.result) = SeqToSet(call.redirections)
  /\ \A i \in 1..(Len(call.result) - 1) :
        LET cmp == LocaleCompare(SortKey(call.result[i], sortBy),
                                 SortKey(call.result[i + 1], sortBy))
        IN  IF call.order = "desc" THEN cmp >= 0 ELSE cmp <= 0

\* C14 (as claimed): sortRedirections sorts by the chosen column, two
\* records with equal key keeping their input order in both directions; a
\* column that is none of from, to, id is taken for from.
C14_StableSort ==
  Sorted =>
    LET sortBy == IF call.arg \in validColumns THEN call.arg ELSE Col_from
    IN  /\ OrderedBy(sortBy)
        /\ \A p \in EqualKeys(sortBy) :
              PlaceIn(call.result, call.redirections[p[1]])
                < PlaceIn(call.result, call.redirections[p[2]])

\* what filterRedirections is to return: the records one of whose fields,
\* in lower case, contains the query in lower case
Expected(recs, searchStr) ==
  IF searchStr = Undefined \/ searchStr = <<>> THEN recs
  ELSE SelectSeq(recs, LAMBDA r :
         \E field \in {StringOf(r.id), r.from, r.to} :
            Includes(ToLowerCase(field), ToLowerCase(searchStr)))

\* C15 (as claimed): filterRedirections never fails and returns exactly the
\* matching records in input order, the input itself for an empty or
\* absent query, the ids being strings or integers.
C15_FilterExact ==
  (call.fn = "filterRedirections" /\ call.returned) =>
    /\ call.ok
    /\ call.result = Expected(call.redirections, call.arg)

\* the cache with which the handlers of the run started holds the active
\* domain with no redirection, and besides it what the file held
LoadedEmpty ==
  /\ DOMAIN run.loaded = DOMAIN run.startFile.content \cup {domain}
  /\ run.loaded[domain] = [redirections |-> <<>>]
  /\ \A d \in DOMAIN run.startFile.content : run.loaded[d] = run.startFile.content[d]

\* C16 (as claimed): the startup load never ends the process; with a
\* missing or unparsable file the active domain starts with no redirection
\* (and no other domain), and with a file that parses but has no entry of
\* the active domain an empty entry is added to what the file holds.
C16_LoadNeverFatal ==
  ~Idle =>
    /\ run.cmd # "crash"
    /\ run.startFile.state \in {"missing", "corrupt"} =>
          LoadedEmpty /\ DOMAIN run.loaded = {domain}
    /\ (run.startFile.state \in {"json", "null"}
          /\ domain \notin DOMAIN run.startFile.content) =>
          LoadedEmpty

\* the ids that the detail requests of the run asked for
DetailIds == {run.reqs[i].id : i \in RequestsOf("detail")}

\* C17: a reconciliation makes one id-list request; it asks for the detail
\* of no id of the local snapshot and of no id twice; when it runs to its
\* end the details asked for are exactly those of the remote ids that the
\* local snapshot lacks, and every local record whose id is still remote
\* is in the new snapshot as it was.
C17_MinimalFetching ==
  /\ run.updates <= 1
  /\ Cardinality(RequestsOf("list")) = run.updates
  /\ run.updates = 0 => RequestsOf("detail") = {}
  /\ run.updates = 1 =>
       /\ DetailIds \cap LocalIds = {}
       /\ DetailIds \subseteq RemoteIds
       /\ Cardinality(DetailIds) = Cardinality(RequestsOf("detail"))
  /\ Reconciled =>
       /\ DetailIds = RemoteIds \ LocalIds
       /\ \A k \in 1..Len(Prior) :
             Prior[k].id \in RemoteIds => Prior[k] \in SeqToSet(Snapshot)

\* a reconciliation that fetches a new id and carries two cached ones over
C17_Witness ==
  /\ Reconciled
  /\ DetailIds # {}
  /\ Cardinality(LocalIds \cap RemoteIds) >= 2
  /\ LocalIds \ RemoteIds # {}

\* the requests of a kind that failed in the run
FailedOf(op) == {i \in RequestsOf(op) : ~run.reqs[i].ok}

\* C18 (as claimed): when a detail request of a reconciliation fails, the
\* reconciliation still runs to its end: the other new ids are fetched,
\* and the file holds the remote ids but the one whose fetch failed.
C18_PartialFailureTolerance ==
  (run.updates = 1 /\ FailedOf("detail") # {}) =>
    /\ Reconciled
    /\ DetailIds = RemoteIds \ LocalIds
    /\ SeqToSet(Ids(Persisted))
         = RemoteIds \ {run.reqs[i].id : i \in FailedOf("detail")}

\* C19 (as claimed): when ban is given several local parts and a create
\* request fails, a create request is still issued for every local part
\* and the reconciliation still runs (its id-list request is made).
C19_BanIsolation ==
  (run.cmd = "ban" /\ Len(run.args) >= 2 /\ FailedOf("create") # {}
     /\ \A k \in 1..Len(run.args) : IsLocalPart(run.args[k])) =>
    /\ Cardinality(RequestsOf("create")) = Len(run.args)
    /\ Cardinality(RequestsOf("list")) = 1

\* the create request of create, or the change request of modify, failed
PrimaryFailed ==
  \/ run.cmd = "create" /\ FailedOf("create") # {}
  \/ run.cmd = "modify" /\ FailedOf("change") # {}

\* C20: when the create request of create or the change request of modify
\* fails, the error is reported, the failed request is the last request of
\* the run (updateRedirections is not called), and the in-memory snapshot
\* and the file are what they were.
C20_NoReconcileAfterFailure ==
  PrimaryFailed =>
    /\ \E i \in LinesOf("invalid") \cup LinesOf("modify-failed") :
          run.out[i].msg = "remote"
    /\ run.updates = 0
    /\ RequestsOf("list") = {} /\ RequestsOf("detail") = {}
    /\ \A i \in 1..Len(run.reqs) : ~run.reqs[i].ok => i = Len(run.reqs)
    /\ run.cache = run.loaded
    /\ file = run.startFile

\* modify whose change request fails while the snapshot holds several
\* records and differs from what the provider holds
C20_Witness ==
  /\ PrimaryFailed
  /\ run.cmd = "modify"
  /\ Len(Prior) >= 2
  /\ LocalIds # RemoteIds

\* validation classifies the identifier as an id: /^\d+$/ of the trimmed text
ValidId(item) == validateCliArg(item, "id").ok

\* C21 (as claimed): in delete and modify an identifier that validation
\* classifies as an id is validated as an id and is itself the id of the
\* request, and every other identifier is resolved through redirByFrom;
\* modify of an all-digit source with a valid address issues its request.
C21_ClassificationAgrees ==
  run.cmd \in {"delete", "modify"} =>
    /\ \A i \in RequestsOf("delete") \cup RequestsOf("change") :
          LET item == ItemOf(run.reqs[i])
          IN  IF ValidId(item)
                THEN /\ run.reqs[i].given[1][2] = "id"
                     /\ run.reqs[i].id = validateCliArg(item, "id").value
                ELSE /\ run.reqs[i].given[1][2] = "localOrEmail"
                     /\ run.reqs[i].id
                          = redirByFrom(run.loaded, validateCliArg(item, "localOrEmail").value).id
    /\ (run.cmd = "modify" /\ ValidId(run.args[1])
          /\ validateCliArg(run.args[2], "email").ok) =>
          \E i \in RequestsOf("change") : run.reqs[i].id = Trim(run.args[1])

\* no two places of a sequence hold the same value
Distinct(seq) == \A i, j \in 1..Len(seq) : i # j => seq[i] # seq[j]

\* a run whose handler has run (the module level code did not throw)
Ran == run.cmd \notin {"none", "crash"}

\* C22: the ids of the active domain's redirections are pairwise distinct,
\* in the file and in the memory of every run, whatever runs of list,
\* update, create, ban, delete and modify came before.
C22_IdUniqueness ==
  /\ (file.state = "json" /\ domain \in DOMAIN file.content) => Distinct(Ids(Persisted))
  /\ Ran => Distinct(Ids(Prior)) /\ Distinct(Ids(Snapshot))

\* a reconciliation, after earlier runs, that keeps two records, drops one
\* and adds one
C22_Witness ==
  /\ Reconciled
  /\ run.startFile.state = "json"
  /\ Cardinality(LocalIds \cap RemoteIds) >= 2
  /\ LocalIds \ RemoteIds # {}
  /\ DetailIds # {}
  /\ Len(Snapshot) >= 3

RECURSIVE Orders(_)
\* the sequences that hold each element of a set once
Orders(S) ==
  IF S = {} THEN {<<>>}
  ELSE UNION { {<<x>> \o rest : rest \in Orders(S \ {x})} : x \in S }

\* the live records have pairwise distinct from
DistinctFrom == \A r1, r2 \in remote : r1.from = r2.from => r1 = r2

\* the remote records that the snapshot loaded lacks: what the detail
\* requests return, in the order in which the ids are listed
NewRecords == {r \in remote : r.id \notin LocalIds}

\* C23: when the live records have pairwise distinct from, the snapshot
\* that a reconciliation leaves is what the merge gives for every order of
\* the records of the prior snapshot and every order in which the new
\* records are listed and fetched.
C23_DeterministicMerge ==
  (Reconciled /\ DistinctFrom) =>
    \A old \in Orders(SeqToSet(Prior)), newRedirections \in Orders(NewRecords) :
       Merge(old,
             DeletedRedirIds(Ids(old), Ascending(RemoteIds)),
             newRedirections) = Snapshot

\* a reconciliation that starts from three records out of order, drops
\* one and fetches a new one
C23_Witness ==
  /\ Reconciled /\ DistinctFrom
  /\ Len(Prior) >= 3
  /\ ~SortedLocale(Prior)
  /\ NewRecords # {}
  /\ Snapshot # Prior

\* the records that the detail requests of the run returned, in the order
\* of the requests
Fetched ==
  LET det == SelectSeq(run.reqs, LAMBDA q : q.op = "detail" /\ q.ok)
  IN  [i \in 1..Len(det) |-> CHOOSE r \in remote : r.id = det[i].id]

ReconcileFailed == FailedOf("list") \cup FailedOf("detail")

\* C24: when the id-list request or a detail request of a reconciliation
\* fails, the snapshot in memory is the one that was loaded, the file is the
\* one the run found and no write is attempted; a write is attempted at most
\* once, only when no such request failed and after the snapshot in memory
\* has been replaced by the merge; the file changes only by that write, and
\* once it succeeded the file holds the cache that is in memory.
C24_AllOrNothing ==
  Ran =>
    /\ ReconcileFailed # {} =>
          /\ run.cache = run.loaded
          /\ file = run.startFile
          /\ run.writes = 0
    /\ run.writes <= 1
    /\ run.writes = 1 =>
          /\ run.updates = 1 /\ ReconcileFailed = {}
          /\ DetailIds = RemoteIds \ LocalIds
          /\ Snapshot = Merge(Prior,
                              DeletedRedirIds(Ids(Prior), Ascending(RemoteIds)),
                              Fetched)
    /\ IF Reconciled THEN file = Stringify(run.cache)
                     ELSE file = run.startFile

\* a reconciliation, started from a file that parses, that fetches one new
\* record and fails on the next one
C24_Witness ==
  /\ Ran /\ run.updates = 1
  /\ \E i, j \in RequestsOf("detail") :
        i < j /\ run.reqs[i].ok /\ ~run.reqs[j].ok
  /\ run.startFile.state = "json"
  /\ run.cache = run.loaded /\ file = run.startFile

=============================================================================
